---- MODULE Spec2Model ----
(***************************************************************************)
(* DiagnoseUnknownCompileTimeValues: the SIL module pass that reports      *)
(* @const globals, @const locals and arguments of @const parameters whose  *)
(* value the constant evaluator cannot reduce to a compile-time constant.  *)
(*                                                                         *)
(* The pass (lib/SILOptimizer/Mandatory/                                   *)
(* DiagnoseUnknownCompileTimeValues.cpp) is modelled statement by          *)
(* statement.  The constant evaluator it drives (ConstExprFunctionState,   *)
(* SymbolicValue) lives outside the excerpt and is modelled from its       *)
(* written contract.                                                       *)
(***************************************************************************)
EXTENDS Integers, Sequences, FiniteSets, TLC

(***************************************************************************)
(* Bounds of the model.                                                    *)
(***************************************************************************)
MaxGlobals == 2
MaxInstrs == 2

(***************************************************************************)
(* The IR values of the module under analysis.  A value is identified by   *)
(* its index in IR; "struct" is the aggregate-construction instruction,    *)
(* "opaque" any value the evaluator does not special-case (a call to a     *)
(* non-foldable function, a function parameter, a load).                   *)
(***************************************************************************)
IR ==
  << [kind |-> "integer_literal", ops |-> <<>>],
     [kind |-> "opaque",          ops |-> <<>>],
     [kind |-> "struct",          ops |-> <<1, 4>>],
     [kind |-> "string_literal",  ops |-> <<>>],
     [kind |-> "struct",          ops |-> <<1, 2>>],
     [kind |-> "struct",          ops |-> <<3, 1>>] >>

Values == DOMAIN IR

(***************************************************************************)
(* SymbolicValue: the evaluator's result type.                             *)
(***************************************************************************)
Unknown == [kind |-> "Unknown", members |-> <<>>]

Integer == [kind |-> "Integer", members |-> <<>>]

String == [kind |-> "String", members |-> <<>>]

Aggregate(results) == [kind |-> "Aggregate", members |-> results]

RECURSIVE isConstant(_)
isConstant(value) ==
  /\ value.kind # "Unknown"
  /\ \A i \in DOMAIN value.members : isConstant(value.members[i])

containsOnlyConstants(value) == isConstant(value)

(***************************************************************************)
(* The constant evaluator.  cache is the memo from IR value to its last    *)
(* computed SymbolicValue, n the evaluation counter the caller handed in   *)
(* by reference.  A value found in the cache costs nothing; otherwise the  *)
(* counter is incremented before the step and the evaluation is abandoned  *)
(* as Unknown once it exceeds the ceiling.                                 *)
(***************************************************************************)
Ceiling == 3

Remember(cache, v, value) ==
  [x \in (DOMAIN cache) \cup {v} |-> IF x = v THEN value ELSE cache[x]]

RECURSIVE evaluate(_, _, _)
RECURSIVE evaluateOperands(_, _, _, _, _)

\* Evaluate operands ops[i..] left to right, collecting results in acc.
evaluateOperands(ops, i, acc, cache, n) ==
  IF i > Len(ops)
    THEN [results |-> acc, cache |-> cache, n |-> n, aborted |-> FALSE]
    ELSE LET r == evaluate(ops[i], cache, n) IN
         IF r.aborted
           THEN [results |-> acc, cache |-> r.cache, n |-> r.n, aborted |-> TRUE]
           ELSE evaluateOperands(ops, i + 1, Append(acc, r.value), r.cache, r.n)

evaluate(v, cache, n) ==
  IF v \in DOMAIN cache
    THEN [value |-> cache[v], cache |-> cache, n |-> n, aborted |-> FALSE]
    ELSE
      IF n + 1 > Ceiling
        THEN [value |-> Unknown, cache |-> Remember(cache, v, Unknown),
              n |-> n + 1, aborted |-> TRUE]
        ELSE
          CASE IR[v].kind = "integer_literal" ->
                 [value |-> Integer, cache |-> Remember(cache, v, Integer),
                  n |-> n + 1, aborted |-> FALSE]
            [] IR[v].kind = "string_literal" ->
                 [value |-> String, cache |-> Remember(cache, v, String),
                  n |-> n + 1, aborted |-> FALSE]
            [] IR[v].kind = "struct" ->
                 LET r == evaluateOperands(IR[v].ops, 1, <<>>, cache, n + 1)
                     res == IF (~r.aborted) /\ \A i \in DOMAIN r.results :
                                                 isConstant(r.results[i])
                              THEN Aggregate(r.results)
                              ELSE Unknown
                 IN [value |-> res, cache |-> Remember(r.cache, v, res),
                     n |-> r.n, aborted |-> r.aborted]
            [] OTHER ->
                 [value |-> Unknown, cache |-> Remember(cache, v, Unknown),
                  n |-> n + 1, aborted |-> FALSE]

\* ConstExprState.getConstantValue(value): one top-level evaluation request
\* against the pass's evaluator state es = [cache, n].
getConstantValue(v, es) ==
  LET r == evaluate(v, es.cache, es.n) IN
  [value |-> r.value, es |-> [cache |-> r.cache, n |-> r.n]]

(***************************************************************************)
(* The module under analysis.                                              *)
(*                                                                         *)
(* A global: decl is "none" (no source declaration), "plain" or "const"    *)
(* (isConstVal); tag is "struct" (static initializer that is a StructInst  *)
(* with operands ops), "static_other" (a static initializer of another     *)
(* instruction kind) or "once" (no static initializer).  For a "once"      *)
(* global initFn is "none" (no function is its global-init function),      *)
(* "no_initializer" (findInitializer returns null) or "found", and addrs   *)
(* lists the global_addr instructions of the found initializer in layout   *)
(* order.                                                                  *)
(*                                                                         *)
(* A global_addr: refers to "this" global or an "other" one; uses is       *)
(* "store" (one use, a store of src), "nonstore" (one use, not a store) or *)
(* "several" (getSingleUse returns null).                                  *)
(***************************************************************************)
GlobalAddr(global, uses, src) == [global |-> global, uses |-> uses, src |-> src]

StructOperandLists == { <<>>, <<3>>, <<1, 2>>, <<2, 2>>, <<5, 4>> }

AddrLists ==
  { << GlobalAddr("this", "several", 1) >>,
    << GlobalAddr("this", "nonstore", 1) >>,
    << GlobalAddr("this", "store", 1) >>,
    << GlobalAddr("this", "store", 2) >>,
    << GlobalAddr("this", "several", 1), GlobalAddr("this", "store", 1) >>,
    << GlobalAddr("this", "nonstore", 1), GlobalAddr("this", "store", 1) >>,
    << GlobalAddr("this", "store", 2), GlobalAddr("this", "store", 4) >>,
    << GlobalAddr("other", "store", 1), GlobalAddr("this", "several", 1) >> }

Global(decl, tag, ops, initFn, addrs) ==
  [decl |-> decl, tag |-> tag, ops |-> ops, initFn |-> initFn, addrs |-> addrs]

GlobalShapes ==
  { Global(d, "struct", <<2>>, "none", <<>>) : d \in {"none", "plain"} }
  \cup { Global("const", "struct", ops, "none", <<>>) : ops \in StructOperandLists }
  \cup { Global("const", "static_other", <<>>, "none", <<>>) }
  \cup { Global("const", "once", <<>>, f, <<>>) : f \in {"none", "no_initializer"} }
  \cup { Global("const", "once", <<>>, "found", as) : as \in AddrLists }

(***************************************************************************)
(* An instruction: a debug_value binding operand to a declaration (decl    *)
(* "none", "plain" or "const"), or an apply whose callee is "none" (no     *)
(* statically known callee function), "nodecl" (the callee's location is   *)
(* no FuncDecl) or "decl" with the declared parameters params (TRUE for a  *)
(* parameter that isConstVal) and the call's arguments args.               *)
(***************************************************************************)
DebugValue(decl, operand) ==
  [op |-> "debug_value", decl |-> decl, operand |-> operand,
   callee |-> "none", params |-> <<>>, args |-> <<>>]

Apply(callee, params, args) ==
  [op |-> "apply", decl |-> "none", operand |-> 1,
   callee |-> callee, params |-> params, args |-> args]

ParamLists == { <<FALSE>>, <<TRUE, FALSE>>, <<FALSE, TRUE>>, <<TRUE, TRUE>> }

ArgLists == { <<2>>, <<1, 2>>, <<2, 1>>, <<2, 2>> }

InstrShapes ==
  { DebugValue(d, 2) : d \in {"none", "plain"} }
  \cup { DebugValue("const", v) : v \in {2, 3, 4, 6} }
  \cup { Apply(c, <<TRUE>>, <<2>>) : c \in {"none", "nodecl"} }
  \cup { Apply("decl", ps, as) : ps \in ParamLists, as \in ArgLists }

SeqsUpTo(S, k) == UNION { [1..m -> S] : m \in 0..k }

\* Modules that vary the globals, and modules that vary the instructions.
GlobalModules ==
  { [globals |-> gs, instrs |-> is] :
      gs \in SeqsUpTo(GlobalShapes, MaxGlobals),
      is \in { <<>>, << Apply("decl", <<TRUE, FALSE>>, <<2, 1>>),
                        DebugValue("const", 4) >> } }

InstrModules ==
  { [globals |-> gs, instrs |-> is] :
      gs \in { <<>>, << Global("const", "struct", <<5, 4>>, "none", <<>>) >> },
      is \in SeqsUpTo(InstrShapes, MaxInstrs) }

Modules == GlobalModules \cup InstrModules

(***************************************************************************)
(* Outcomes of undefined behaviour.  The pass reads past the end of an     *)
(* array, or dereferences the null result of a failed dyn_cast: a build    *)
(* with assertions stops at the assertion ("fault"); a build without them  *)
(* may crash as well ("fault") or go on with whatever it read, which the   *)
(* evaluator then finds constant ("constant") or not ("unknown").          *)
(***************************************************************************)
UBOutcomes == {"fault", "constant", "unknown"}

(***************************************************************************)
(* State of the pass object and of the diagnostic sink.                    *)
(***************************************************************************)
VARIABLES
  module,                       \* the SILModule given to the pass (read only)
  NumEvaluatedSILInstructions,  \* member: the evaluation counter
  ConstExprState,               \* member: the evaluator's memo of computed values
  phase,                        \* position of run(): "idle", "globals", "locals", "calls", "done"
  idx,                          \* position of the running loop (global or instruction)
  runs,                         \* how many times run() has been started
  diags,                        \* diagnostics emitted by the current run, in order
  prevDiags,                    \* diagnostics emitted by the previous run
  argReads,                     \* the (instruction, index) pairs read from ApplyArgRefs
  fault                         \* the process stopped in an assertion failure or crash

passVars == << module, NumEvaluatedSILInstructions, ConstExprState, phase, idx,
               runs, diags, prevDiags, argReads, fault >>

(***************************************************************************)
(* State of the C++ interoperability header's two base classes: the        *)
(* OpaqueStorage objects of a client with the buffers of opaqueAlloc, and  *)
(* the RefCountedClass wrappers with the Swift objects they point to.      *)
(***************************************************************************)
VARIABLES
  storage,         \* OpaqueStorage::storage of each object: nullptr or a buffer
  lifetime,        \* each OpaqueStorage object: "unborn", "live" or "destroyed"
  numAllocated,    \* how many buffers opaqueAlloc has returned
  freeCalls,       \* per buffer, how many times it was passed to opaqueFree
  gaveAway,        \* the (object, buffer) pairs where a move took the buffer from the object
  _opaquePointer,  \* RefCountedClass::_opaquePointer of each wrapper
  origin,          \* each wrapper: "unborn", "pointer" (line 120), "copy" or "destroyed"
  retainCount,     \* the strong retain count of each Swift object
  initialCount,    \* the retain count each Swift object started with
  outsideRefs,     \* per Swift object, the references held outside the wrappers
  deallocated,     \* the Swift objects whose retain count has reached zero
  assigned         \* the kinds of copy assignment done: "self", "same" object, "other" object

opaqueVars == << storage, lifetime, numAllocated, freeCalls, gaveAway >>

refVars == << _opaquePointer, origin, retainCount, initialCount, outsideRefs,
             deallocated, assigned >>

vars == << passVars, opaqueVars, refVars >>

(***************************************************************************)
(* OpaqueStorage: a container that owns the buffer of an opaque Swift      *)
(* value.  A client has up to MaxObjects objects; opaqueAlloc hands out up *)
(* to MaxBuffers buffers, each allocation a new one.                       *)
(***************************************************************************)
MaxObjects == 3

MaxBuffers == 2

Objects == 1 .. MaxObjects

Buffers == 1 .. MaxBuffers

nullptr == 0

\* opaqueAlloc: the pointer posix_memalign stored, a new buffer, or r as
\* it was initialised when the allocation failed.
opaqueAlloc == {nullptr, numAllocated + 1}

\* opaqueFree(p).
opaqueFree(p) == freeCalls' = [freeCalls EXCEPT ![p] = @ + 1]

OpaqueStorageUnused ==
  /\ storage = [o \in Objects |-> nullptr]
  /\ lifetime = [o \in Objects |-> "unborn"]
  /\ numAllocated = 0
  /\ freeCalls = [b \in Buffers |-> 0]
  /\ gaveAway = {}

\* The record of the buffers a step has taken from the objects that held them.
Moved ==
  gaveAway' = gaveAway \cup {<< o, storage[o] >> : o \in {x \in Objects :
                               storage[x] # nullptr /\ storage'[x] # storage[x]}}

\* OpaqueStorage().
OpaqueStorageDefault(this) ==
  /\ lifetime[this] = "unborn"
  /\ storage' = [storage EXCEPT ![this] = nullptr]
  /\ lifetime' = [lifetime EXCEPT ![this] = "live"]
  /\ UNCHANGED << numAllocated, freeCalls, gaveAway >>
  /\ UNCHANGED << passVars, refVars >>

\* OpaqueStorage(size, alignment).
OpaqueStorageSized(this) ==
  /\ lifetime[this] = "unborn"
  /\ numAllocated < MaxBuffers
  /\ \E r \in opaqueAlloc :
       /\ storage' = [storage EXCEPT ![this] = r]
       /\ numAllocated' = IF r = nullptr THEN numAllocated ELSE r
  /\ lifetime' = [lifetime EXCEPT ![this] = "live"]
  /\ UNCHANGED << freeCalls, gaveAway >>
  /\ UNCHANGED << passVars, refVars >>

\* OpaqueStorage(OpaqueStorage &&other) without the reset of other.storage.
OpaqueStorageMoveKeeping(this, other) ==
  /\ lifetime[this] = "unborn"
  /\ lifetime[other] = "live"
  /\ storage' = [storage EXCEPT ![this] = storage[other]]
  /\ lifetime' = [lifetime EXCEPT ![this] = "live"]
  /\ UNCHANGED << numAllocated, freeCalls >>
  /\ Moved
  /\ UNCHANGED << passVars, refVars >>

\* OpaqueStorage(OpaqueStorage &&other).
OpaqueStorageMove(this, other) ==
  /\ lifetime[this] = "unborn"
  /\ lifetime[other] = "live"
  /\ LET taken == [storage EXCEPT ![this] = storage[other]] IN
       storage' = [taken EXCEPT ![other] = nullptr]
  /\ lifetime' = [lifetime EXCEPT ![this] = "live"]
  /\ UNCHANGED << numAllocated, freeCalls >>
  /\ Moved
  /\ UNCHANGED << passVars, refVars >>

\* ~OpaqueStorage().
OpaqueStorageDestroy(this) ==
  /\ lifetime[this] = "live"
  /\ IF storage[this] # nullptr
       THEN opaqueFree(storage[this])
       ELSE UNCHANGED freeCalls
  /\ lifetime' = [lifetime EXCEPT ![this] = "destroyed"]
  /\ UNCHANGED << storage, numAllocated, gaveAway >>
  /\ UNCHANGED << passVars, refVars >>

\* operator=(OpaqueStorage &&other); other may be this.
OpaqueStorageMoveAssign(this, other) ==
  /\ lifetime[this] = "live"
  /\ lifetime[other] = "live"
  /\ LET temp == storage[this]
         taken == [storage EXCEPT ![this] = storage[other]] IN
       storage' = [taken EXCEPT ![other] = temp]
  /\ UNCHANGED << lifetime, numAllocated, freeCalls >>
  /\ Moved
  /\ UNCHANGED << passVars, refVars >>

(***************************************************************************)
(* RefCountedClass: a wrapper that holds one strong reference to a Swift   *)
(* object.  A client has up to MaxWrappers wrappers for MaxSwiftObjects    *)
(* objects; each object starts with 1 .. MaxInitialCount references, all   *)
(* of them held outside the wrappers.                                      *)
(***************************************************************************)
MaxWrappers == 3

MaxSwiftObjects == 2

MaxInitialCount == 2

Wrappers == 1 .. MaxWrappers

SwiftObjects == 1 .. MaxSwiftObjects

\* The runtime's view of the Swift objects.
Heap == [retainCount |-> retainCount, deallocated |-> deallocated]

\* swift_retain(p): one more strong reference.
swift_retain(heap, p) ==
  [heap EXCEPT !.retainCount[p] = @ + 1]

\* swift_release(p): one strong reference less; the object is deallocated
\* when the last one goes.
swift_release(heap, p) ==
  LET n == IF heap.retainCount[p] > 0 THEN heap.retainCount[p] - 1 ELSE 0 IN
  [retainCount |-> [heap.retainCount EXCEPT ![p] = n],
   deallocated |-> IF n = 0 THEN heap.deallocated \cup {p} ELSE heap.deallocated]

\* The runtime's view after a step that left it as heap.
HeapBecomes(heap) ==
  /\ retainCount' = heap.retainCount
  /\ deallocated' = heap.deallocated

Live(w) == origin[w] \in {"pointer", "copy"}

RefCountedClassUnused ==
  /\ _opaquePointer = [w \in Wrappers |-> nullptr]
  /\ origin = [w \in Wrappers |-> "unborn"]
  /\ initialCount = [s \in SwiftObjects |-> 1]
  /\ retainCount = initialCount
  /\ outsideRefs = initialCount
  /\ deallocated = {}
  /\ assigned = {}

\* The record of which kind of copy assignment a step is.
Assigned(this, other) ==
  assigned' = assigned \cup
    {IF this = other THEN "self"
     ELSE IF _opaquePointer[this] = _opaquePointer[other] THEN "same"
     ELSE "other"}

\* RefCountedClass(void *ptr): the wrapper takes over a reference its
\* caller holds.
RefCountedClassPointer(this, ptr) ==
  /\ origin[this] = "unborn"
  /\ outsideRefs[ptr] > 0
  /\ _opaquePointer' = [_opaquePointer EXCEPT ![this] = ptr]
  /\ origin' = [origin EXCEPT ![this] = "pointer"]
  /\ outsideRefs' = [outsideRefs EXCEPT ![ptr] = @ - 1]
  /\ UNCHANGED << retainCount, deallocated, initialCount, assigned >>
  /\ UNCHANGED << passVars, opaqueVars >>

\* RefCountedClass(const RefCountedClass &other).
RefCountedClassCopy(this, other) ==
  /\ origin[this] = "unborn"
  /\ Live(other)
  /\ _opaquePointer' = [_opaquePointer EXCEPT ![this] = _opaquePointer[other]]
  /\ HeapBecomes(swift_retain(Heap, _opaquePointer[other]))
  /\ origin' = [origin EXCEPT ![this] = "copy"]
  /\ UNCHANGED << initialCount, outsideRefs, assigned >>
  /\ UNCHANGED << passVars, opaqueVars >>

\* operator=(const RefCountedClass &other) with the release first.
RefCountedClassCopyAssignReleaseFirst(this, other) ==
  /\ Live(this)
  /\ Live(other)
  /\ HeapBecomes(swift_retain(swift_release(Heap, _opaquePointer[this]),
                              _opaquePointer[other]))
  /\ _opaquePointer' = [_opaquePointer EXCEPT ![this] = _opaquePointer[other]]
  /\ Assigned(this, other)
  /\ UNCHANGED << origin, initialCount, outsideRefs >>
  /\ UNCHANGED << passVars, opaqueVars >>

\* operator=(const RefCountedClass &other); other may be this.
RefCountedClassCopyAssign(this, other) ==
  /\ Live(this)
  /\ Live(other)
  /\ HeapBecomes(swift_release(swift_retain(Heap, _opaquePointer[other]),
                               _opaquePointer[this]))
  /\ _opaquePointer' = [_opaquePointer EXCEPT ![this] = _opaquePointer[other]]
  /\ Assigned(this, other)
  /\ UNCHANGED << origin, initialCount, outsideRefs >>
  /\ UNCHANGED << passVars, opaqueVars >>

\* ~RefCountedClass().
RefCountedClassDestroy(this) ==
  /\ Live(this)
  /\ HeapBecomes(swift_release(Heap, _opaquePointer[this]))
  /\ origin' = [origin EXCEPT ![this] = "destroyed"]
  /\ UNCHANGED << _opaquePointer, initialCount, outsideRefs, assigned >>
  /\ UNCHANGED << passVars, opaqueVars >>

(***************************************************************************)
(* A client of the header: any sequence of operations on its objects.      *)
(***************************************************************************)
PassUnused ==
  /\ module = [globals |-> << >>, instrs |-> << >>]
  /\ NumEvaluatedSILInstructions = 0
  /\ ConstExprState = << >>
  /\ phase = "idle"
  /\ idx = 0
  /\ runs = 0
  /\ diags = << >>
  /\ prevDiags = << >>
  /\ argReads = {}
  /\ fault = FALSE

InitOpaqueStorage == PassUnused /\ OpaqueStorageUnused /\ RefCountedClassUnused

NextOpaqueStorage ==
  \/ \E this \in Objects : OpaqueStorageDefault(this)
  \/ \E this \in Objects : OpaqueStorageSized(this)
  \/ \E this, other \in Objects : OpaqueStorageMove(this, other)
  \/ \E this, other \in Objects : OpaqueStorageMoveAssign(this, other)
  \/ \E this \in Objects : OpaqueStorageDestroy(this)

SpecOpaqueStorage == InitOpaqueStorage /\ [][NextOpaqueStorage]_vars

InitRefCountedClass ==
  /\ PassUnused
  /\ OpaqueStorageUnused
  /\ _opaquePointer = [w \in Wrappers |-> nullptr]
  /\ origin = [w \in Wrappers |-> "unborn"]
  /\ initialCount \in [SwiftObjects -> 1 .. MaxInitialCount]
  /\ retainCount = initialCount
  /\ outsideRefs = initialCount
  /\ deallocated = {}
  /\ assigned = {}

NextRefCountedClass ==
  \/ \E this \in Wrappers, ptr \in SwiftObjects : RefCountedClassPointer(this, ptr)
  \/ \E this, other \in Wrappers : RefCountedClassCopy(this, other)
  \/ \E this, other \in Wrappers : RefCountedClassCopyAssign(this, other)
  \/ \E this \in Wrappers : RefCountedClassDestroy(this)

SpecRefCountedClass == InitRefCountedClass /\ [][NextRefCountedClass]_vars

\* A diagnostic: its kind and the site it is reported for.  check is "global",
\* "local" or "call"; pos the index of the global or of the instruction; arg
\* the parameter index for a call argument, 0 otherwise.
Diag(kind, check, pos, arg) ==
  [kind |-> kind, check |-> check, pos |-> pos, arg |-> arg]

\* The evaluator state the pass threads through one step, with the sink.
PassState(es, ds) == [es |-> es, diags |-> ds]

(***************************************************************************)
(* verifyStaticallyInitializedGlobal                                       *)
(***************************************************************************)
\* The body of the loop over the StructInst's operands, for operand v.
verifyStructOperand(v, pos, st) ==
  LET r == getConstantValue(v, st.es) IN
  IF ~containsOnlyConstants(r.value)
    THEN PassState(r.es, Append(st.diags,
           Diag("require_const_initializer_for_const", "global", pos, 0)))
    ELSE PassState(r.es, st.diags)

RECURSIVE verifyStructOperands(_, _, _, _)
verifyStructOperands(ops, i, pos, st) ==
  IF i > Len(ops) THEN st
  ELSE verifyStructOperands(ops, i + 1, pos, verifyStructOperand(ops[i], pos, st))

verifyStaticallyInitializedGlobal(G, pos, st) ==
  IF G.tag = "struct"
    THEN verifyStructOperands(G.ops, 1, pos, st)
    ELSE st

(***************************************************************************)
(* verifyInitializeOnceGlobal                                              *)
(***************************************************************************)
\* The body of the instruction loop for one global_addr: "return" leaves the
\* function without a diagnostic, "continue" goes on scanning, "fault" is
\* the failed assertion or the crash on a sole use that is no store.
\* verifyGlobalAddr without the return on a constant store: the scan goes on
\* and the global is reported although its store was verified.
verifyGlobalAddrNoReturn(a, st, outcome) ==
  IF a.global = "this" /\ a.uses = "store"
    THEN [st |-> PassState(getConstantValue(a.src, st.es).es, st.diags),
          next |-> "continue"]
    ELSE [st |-> st, next |-> IF a.uses = "nonstore" /\ outcome = "fault"
                                THEN "fault" ELSE "continue"]

verifyGlobalAddr(a, st, outcome) ==
  IF a.global = "this" /\ a.uses \in {"store", "nonstore"}
    THEN IF a.uses = "store"
           THEN LET r == getConstantValue(a.src, st.es) IN
                [st |-> PassState(r.es, st.diags),
                 next |-> IF isConstant(r.value) THEN "return" ELSE "continue"]
           ELSE [st |-> st,
                 next |-> CASE outcome = "fault" -> "fault"
                            [] outcome = "constant" -> "return"
                            [] OTHER -> "continue"]
    ELSE [st |-> st, next |-> "continue"]

RECURSIVE scanInitializer(_, _, _, _)
scanInitializer(addrs, i, st, ub) ==
  IF i > Len(addrs) THEN [st |-> st, next |-> "continue"]
  ELSE LET r == verifyGlobalAddr(addrs[i], st, ub[i]) IN
       IF r.next = "continue" THEN scanInitializer(addrs, i + 1, r.st, ub)
       ELSE r

verifyInitializeOnceGlobal(G, pos, st, ub) ==
  LET r == IF G.initFn = "found"
             THEN scanInitializer(G.addrs, 1, st, ub)
             ELSE [st |-> st, next |-> "continue"]
  IN
  CASE r.next = "return" -> [st |-> r.st, fault |-> FALSE]
    [] r.next = "fault" -> [st |-> r.st, fault |-> TRUE]
    [] OTHER ->
         [st |-> PassState(r.st.es, Append(r.st.diags,
                   Diag("require_const_initializer_for_const", "global", pos, 0))),
          fault |-> FALSE]

\* The body of verifyGlobals' loop for global G.
verifyGlobal(G, pos, st, ub) ==
  IF G.decl = "const"
    THEN IF G.tag \in {"struct", "static_other"}
           THEN [st |-> verifyStaticallyInitializedGlobal(G, pos, st), fault |-> FALSE]
           ELSE verifyInitializeOnceGlobal(G, pos, st, ub)
    ELSE [st |-> st, fault |-> FALSE]

(***************************************************************************)
(* verifyLocal                                                             *)
(***************************************************************************)
\* verifyLocal without the isConstVal test: every bound declaration is
\* taken as constant-required.
verifyLocalAnyDecl(DBI, pos, st) ==
  IF DBI.decl = "none" THEN st
  ELSE LET r == getConstantValue(DBI.operand, st.es) IN
       IF ~isConstant(r.value)
         THEN PassState(r.es, Append(st.diags,
                Diag("require_const_arg_for_parameter", "local", pos, 0)))
         ELSE PassState(r.es, st.diags)

verifyLocal(DBI, pos, st) ==
  IF DBI.decl # "const" THEN st
  ELSE LET r == getConstantValue(DBI.operand, st.es) IN
       IF ~isConstant(r.value)
         THEN PassState(r.es, Append(st.diags,
                Diag("require_const_arg_for_parameter", "local", pos, 0)))
         ELSE PassState(r.es, st.diags)

(***************************************************************************)
(* verifyCallArguments for one ApplyInst                                   *)
(***************************************************************************)
\* The body of the second loop for parameter index i: ApplyArgRefs[i] is read
\* first, for every declared parameter, then evaluated if the parameter is
\* @const.  Reading at i > Len(args) is out of bounds.
verifyCallArgument(A, pos, i, st, outcome) ==
  IF i > Len(A.args)
    THEN IF outcome = "fault"
           THEN [st |-> st, fault |-> TRUE]
           ELSE IF A.params[i] /\ outcome = "unknown"
                  THEN [st |-> PassState(st.es, Append(st.diags,
                                Diag("require_const_arg_for_parameter", "call", pos, i))),
                        fault |-> FALSE]
                  ELSE [st |-> st, fault |-> FALSE]
    ELSE IF A.params[i]
           THEN LET r == getConstantValue(A.args[i], st.es) IN
                IF ~isConstant(r.value)
                  THEN [st |-> PassState(r.es, Append(st.diags,
                                Diag("require_const_arg_for_parameter", "call", pos, i))),
                        fault |-> FALSE]
                  ELSE [st |-> PassState(r.es, st.diags), fault |-> FALSE]
           ELSE [st |-> st, fault |-> FALSE]

\* Result of the loop from index i on: the pass state, the indices read and
\* whether the process stopped.
RECURSIVE verifyCallArgumentsFrom(_, _, _, _, _, _)
verifyCallArgumentsFrom(A, pos, i, st, reads, ub) ==
  IF i > Len(A.params) THEN [st |-> st, reads |-> reads, fault |-> FALSE]
  ELSE LET r == verifyCallArgument(A, pos, i, st, ub[i]) IN
       IF r.fault THEN [st |-> r.st, reads |-> reads \cup {<<pos, i>>}, fault |-> TRUE]
       ELSE verifyCallArgumentsFrom(A, pos, i + 1, r.st, reads \cup {<<pos, i>>}, ub)

hasConst(A) == \E i \in DOMAIN A.params : A.params[i]

verifyCallArgumentsOf(A, pos, st, ub) ==
  IF A.callee # "decl" THEN [st |-> st, reads |-> {}, fault |-> FALSE]
  ELSE IF hasConst(A)
         THEN verifyCallArgumentsFrom(A, pos, 1, st, {}, ub)
         ELSE [st |-> st, reads |-> {}, fault |-> FALSE]

(***************************************************************************)
(* The pass object after construction, given a module.                     *)
(***************************************************************************)
Init ==
  /\ module \in Modules
  /\ NumEvaluatedSILInstructions = 0
  /\ ConstExprState = << >>
  /\ phase = "idle"
  /\ idx = 0
  /\ runs = 0
  /\ diags = << >>
  /\ prevDiags = << >>
  /\ argReads = {}
  /\ fault = FALSE
  /\ OpaqueStorageUnused
  /\ RefCountedClassUnused

Now == PassState([cache |-> ConstExprState, n |-> NumEvaluatedSILInstructions], diags)

\* The members and the sink after a step that left them as st.
Becomes(st) ==
  /\ ConstExprState' = st.es.cache
  /\ NumEvaluatedSILInstructions' = st.es.n
  /\ diags' = st.diags

\* run() with verifyCallArguments called before verifyLocals.
nextCheckCallsFirst(p) ==
  CASE p = "globals" -> "calls"
    [] p = "calls" -> "locals"
    [] OTHER -> "done"

\* run(): the order of its three checks.
nextCheck(p) ==
  CASE p = "globals" -> "locals"
    [] p = "locals" -> "calls"
    [] OTHER -> "done"

\* run() is entered: on a fresh pass object, or again after a completed run.
run ==
  /\ ~fault
  /\ phase \in {"idle", "done"}
  /\ runs < 2
  /\ runs' = runs + 1
  /\ phase' = "globals"
  /\ idx' = 1
  /\ prevDiags' = diags
  /\ diags' = << >>
  /\ UNCHANGED << module, NumEvaluatedSILInstructions, ConstExprState, argReads, fault >>
  /\ UNCHANGED << opaqueVars, refVars >>

\* verifyGlobals: one iteration of its loop, or its end.
verifyGlobals ==
  /\ ~fault
  /\ phase = "globals"
  /\ \/ /\ idx <= Len(module.globals)
        /\ \E ub \in [DOMAIN module.globals[idx].addrs -> UBOutcomes] :
              LET r == verifyGlobal(module.globals[idx], idx, Now, ub) IN
              /\ Becomes(r.st)
              /\ fault' = r.fault
        /\ idx' = idx + 1
        /\ UNCHANGED phase
     \/ /\ idx > Len(module.globals)
        /\ phase' = nextCheck(phase)
        /\ idx' = 1
        /\ UNCHANGED << NumEvaluatedSILInstructions, ConstExprState, diags, fault >>
  /\ UNCHANGED << module, runs, prevDiags, argReads >>
  /\ UNCHANGED << opaqueVars, refVars >>

\* verifyLocals: one iteration of its loops, or their end.
verifyLocals ==
  /\ ~fault
  /\ phase = "locals"
  /\ \/ /\ idx <= Len(module.instrs)
        /\ IF module.instrs[idx].op = "debug_value"
             THEN Becomes(verifyLocal(module.instrs[idx], idx, Now))
             ELSE UNCHANGED << NumEvaluatedSILInstructions, ConstExprState, diags >>
        /\ idx' = idx + 1
        /\ UNCHANGED phase
     \/ /\ idx > Len(module.instrs)
        /\ phase' = nextCheck(phase)
        /\ idx' = 1
        /\ UNCHANGED << NumEvaluatedSILInstructions, ConstExprState, diags >>
  /\ UNCHANGED << module, runs, prevDiags, argReads, fault >>
  /\ UNCHANGED << opaqueVars, refVars >>

\* verifyCallArguments(): one iteration of its loops, or their end, which
\* is the end of run().
verifyCallArguments ==
  /\ ~fault
  /\ phase = "calls"
  /\ \/ /\ idx <= Len(module.instrs)
        /\ IF module.instrs[idx].op = "apply"
             THEN \E ub \in [DOMAIN module.instrs[idx].params -> UBOutcomes] :
                    LET r == verifyCallArgumentsOf(module.instrs[idx], idx, Now, ub) IN
                    /\ Becomes(r.st)
                    /\ argReads' = argReads \cup r.reads
                    /\ fault' = r.fault
             ELSE UNCHANGED << NumEvaluatedSILInstructions, ConstExprState, diags,
                               argReads, fault >>
        /\ idx' = idx + 1
        /\ UNCHANGED phase
     \/ /\ idx > Len(module.instrs)
        /\ phase' = nextCheck(phase)
        /\ idx' = 1
        /\ UNCHANGED << NumEvaluatedSILInstructions, ConstExprState, diags,
                        argReads, fault >>
  /\ UNCHANGED << module, runs, prevDiags >>
  /\ UNCHANGED << opaqueVars, refVars >>

Next == run \/ verifyGlobals \/ verifyLocals \/ verifyCallArguments

Spec == Init /\ [][Next]_vars

(***************************************************************************)
(* Vocabulary of the properties.                                           *)
(***************************************************************************)
\* The number of diagnostics the current run has emitted for a site.
NumDiags(check, pos) ==
  Cardinality({ i \in DOMAIN diags : diags[i].check = check /\ diags[i].pos = pos })

\* The current run's verifyGlobals loop has taken global g.
GlobalProcessed(g) ==
  /\ g \in DOMAIN module.globals
  /\ \/ phase = "globals" /\ g < idx
     \/ phase \in {"locals", "calls", "done"}

\* verifyGlobals has completed in the current run.
GlobalsComplete == phase \in {"locals", "calls", "done"}

\* The process stopped while the loop was at global g.
FaultedAtGlobal(g) == fault /\ phase = "globals" /\ idx = g + 1

\* The evaluator has been asked for v and answered a constant.
EvaluatedConstant(v) ==
  v \in DOMAIN ConstExprState /\ isConstant(ConstExprState[v])

\* The evaluator has been asked for v and answered Unknown.
EvaluatedUnknown(v) ==
  v \in DOMAIN ConstExprState /\ ~isConstant(ConstExprState[v])

ConstStructGlobal(g) ==
  module.globals[g].decl = "const" /\ module.globals[g].tag = "struct"

ConstOnceGlobal(g) ==
  module.globals[g].decl = "const" /\ module.globals[g].tag = "once"

\* The global_addr instructions of g's initializer that refer to g.
OwnAddrs(g) ==
  IF module.globals[g].initFn = "found"
    THEN { i \in DOMAIN module.globals[g].addrs :
             module.globals[g].addrs[i].global = "this" }
    ELSE {}

(***************************************************************************)
(* C1.  A constant-required global with a StructInst static initializer    *)
(* gets exactly one require_const_initializer_for_const diagnostic when    *)
(* at least one operand does not evaluate to a constant, however many      *)
(* operands are non-constant, and none when every operand is constant.     *)
(***************************************************************************)
C1_OneDiagnosticPerStaticGlobal ==
  \A g \in DOMAIN module.globals :
    (GlobalProcessed(g) /\ ConstStructGlobal(g)) =>
      NumDiags("global", g) =
        (IF \E i \in DOMAIN module.globals[g].ops :
                EvaluatedUnknown(module.globals[g].ops[i])
           THEN 1 ELSE 0)

(***************************************************************************)
(* C2.  The call-argument check never indexes the argument list at a       *)
(* position beyond the number of arguments: a parameter index without an   *)
(* argument is skipped.                                                    *)
(***************************************************************************)
C2_ArgumentIndexInBounds ==
  \A r \in argReads : r[2] <= Len(module.instrs[r[1]].args)

(***************************************************************************)
(* C3.  When the global_addr of an initialize-once global has exactly one  *)
(* use and that use is not a store, the check neither fails an assertion   *)
(* nor faults, and emits exactly one diagnostic at the declaration.        *)
(***************************************************************************)
C3_NonStoreSoleUseReported ==
  \A g \in DOMAIN module.globals :
    ( /\ GlobalProcessed(g)
      /\ ConstOnceGlobal(g)
      /\ OwnAddrs(g) # {}
      /\ \A i \in OwnAddrs(g) : module.globals[g].addrs[i].uses = "nonstore" )
    => ( ~FaultedAtGlobal(g) /\ NumDiags("global", g) = 1 )

(***************************************************************************)
(* C4.  After verifyGlobals, a constant-required global has no diagnostic  *)
(* only if one of the two strategies evaluated its initializer to a        *)
(* constant; every other constant-required global has a diagnostic.        *)
(***************************************************************************)
\* One of the two strategies evaluated g's initializer to a constant.
ConfirmedConstant(g) ==
  \/ /\ ConstStructGlobal(g)
     /\ \A i \in DOMAIN module.globals[g].ops :
          EvaluatedConstant(module.globals[g].ops[i])
  \/ /\ ConstOnceGlobal(g)
     /\ \E i \in OwnAddrs(g) :
          /\ module.globals[g].addrs[i].uses = "store"
          /\ EvaluatedConstant(module.globals[g].addrs[i].src)

C4_UnconfirmedGlobalsReported ==
  GlobalsComplete =>
    \A g \in DOMAIN module.globals :
      module.globals[g].decl = "const" =>
        (NumDiags("global", g) = 0 <=> ConfirmedConstant(g))

(***************************************************************************)
(* C5.  For a constant-required initialize-once global: if its             *)
(* initializer holds a global_addr of it whose single use is a store of a  *)
(* value that evaluates to a constant, no diagnostic is emitted for the    *)
(* global; if the global's address has two or more uses (every global_addr *)
(* of it has several uses), exactly one diagnostic is emitted.             *)
(***************************************************************************)
HasConstantStore(g) ==
  \E i \in OwnAddrs(g) :
    /\ module.globals[g].addrs[i].uses = "store"
    /\ EvaluatedConstant(module.globals[g].addrs[i].src)

AddressHasSeveralUses(g) ==
  /\ OwnAddrs(g) # {}
  /\ \A i \in OwnAddrs(g) : module.globals[g].addrs[i].uses = "several"

C5_InitializeOnceGlobal ==
  \A g \in DOMAIN module.globals :
    (GlobalProcessed(g) /\ ConstOnceGlobal(g)) =>
      /\ HasConstantStore(g) => NumDiags("global", g) = 0
      /\ AddressHasSeveralUses(g) => NumDiags("global", g) = 1

\* Both cases have been through the check: a global passed silently on its
\* constant store, and one with a several-use address was reported once.
C5_Witness ==
  /\ ~fault
  /\ GlobalsComplete
  /\ \E g \in DOMAIN module.globals :
       ConstOnceGlobal(g) /\ HasConstantStore(g) /\ NumDiags("global", g) = 0
  /\ \E g \in DOMAIN module.globals :
       ConstOnceGlobal(g) /\ AddressHasSeveralUses(g) /\ NumDiags("global", g) = 1

(***************************************************************************)
(* C6.  For a call whose resolved callee has constant-required parameters, *)
(* the number of require_const_arg_for_parameter diagnostics of the call   *)
(* equals the number of constant-required parameter indices whose paired   *)
(* argument does not evaluate to a constant; a call with no resolvable     *)
(* callee declaration or no constant-required parameter emits nothing.     *)
(***************************************************************************)
CallProcessed(pos) ==
  /\ pos \in DOMAIN module.instrs
  /\ module.instrs[pos].op = "apply"
  /\ \/ phase = "calls" /\ pos < idx
     \/ phase = "done"

OffendingArguments(A) ==
  IF A.callee = "decl"
    THEN { i \in DOMAIN A.params :
             A.params[i] /\ i <= Len(A.args) /\ EvaluatedUnknown(A.args[i]) }
    ELSE {}

C6_OneDiagnosticPerOffendingArgument ==
  \A pos \in DOMAIN module.instrs :
    (CallProcessed(pos) /\ ~fault) =>
      NumDiags("call", pos) = Cardinality(OffendingArguments(module.instrs[pos]))

(***************************************************************************)
(* C7.  For every debug_value: exactly one require_const_arg_for_parameter *)
(* diagnostic at the bound declaration if the declaration exists, is       *)
(* constant-required and the operand does not evaluate to a constant;      *)
(* none otherwise.                                                         *)
(***************************************************************************)
LocalProcessed(pos) ==
  /\ pos \in DOMAIN module.instrs
  /\ module.instrs[pos].op = "debug_value"
  /\ \/ phase = "locals" /\ pos < idx
     \/ phase \in {"calls", "done"}

OffendingLocal(pos) ==
  /\ module.instrs[pos].decl = "const"
  /\ EvaluatedUnknown(module.instrs[pos].operand)

C7_OneDiagnosticPerOffendingBinding ==
  /\ \A pos \in DOMAIN module.instrs :
       LocalProcessed(pos) =>
         NumDiags("local", pos) = (IF OffendingLocal(pos) THEN 1 ELSE 0)
  /\ \A i \in DOMAIN diags :
       diags[i].check = "local" =>
         /\ diags[i].kind = "require_const_arg_for_parameter"
         /\ module.instrs[diags[i].pos].op = "debug_value"

\* An offending binding and a constant one have both been through the check.
C7_Witness ==
  /\ \E pos \in DOMAIN module.instrs :
       LocalProcessed(pos) /\ OffendingLocal(pos) /\ NumDiags("local", pos) = 1
  /\ \E pos \in DOMAIN module.instrs :
       /\ LocalProcessed(pos)
       /\ module.instrs[pos].decl = "const"
       /\ EvaluatedConstant(module.instrs[pos].operand)
       /\ NumDiags("local", pos) = 0

EvaluatedFirst(v) == evaluate(v, << >>, 0)

C9_VerdictIndependentOfEarlierEvaluations ==
  \A v \in DOMAIN ConstExprState :
    EvaluatedFirst(v).n < Ceiling =>
      isConstant(ConstExprState[v]) = isConstant(EvaluatedFirst(v).value)

(***************************************************************************)
(* C10.  The diagnostics of one run() are emitted in source order: of two  *)
(* offending sites, the one earlier in module layout (globals in           *)
(* declaration order, then instructions in layout order) is reported       *)
(* first, also when one is a local binding and the other a call argument.  *)
(* Stated on modules the pass handles without undefined behaviour, so that *)
(* the order alone decides it.                                             *)
(***************************************************************************)
\* The module has none of the shapes on which the pass reads out of bounds
\* or through a failed cast: every call has an argument per declared
\* parameter, every sole use of a global_addr is a store.
WellFormedModule ==
  /\ \A p \in DOMAIN module.instrs :
       Len(module.instrs[p].args) >= Len(module.instrs[p].params)
  /\ \A g \in DOMAIN module.globals :
       \A a \in DOMAIN module.globals[g].addrs :
         module.globals[g].addrs[a].uses # "nonstore"

\* Layout position of a diagnostic's site: globals first, then instructions.
LayoutPosition(d) ==
  IF d.check = "global" THEN d.pos ELSE Len(module.globals) + d.pos

C10_SourceOrder ==
  WellFormedModule =>
    \A i, j \in DOMAIN diags :
      i < j => LayoutPosition(diags[i]) <= LayoutPosition(diags[j])

(***************************************************************************)
(* C10, as the pass orders them: the diagnostics of one run() come check   *)
(* by check, those of globals first (declaration order), then those of     *)
(* local bindings (layout order), then those of call arguments (layout     *)
(* order, and parameter order within one call).                            *)
(***************************************************************************)
CheckRank(d) ==
  CASE d.check = "global" -> 1
    [] d.check = "local" -> 2
    [] OTHER -> 3

DiagKey(d) == << CheckRank(d), d.pos, d.arg >>

KeyLeq(a, b) ==
  \/ a[1] < b[1]
  \/ a[1] = b[1] /\ a[2] < b[2]
  \/ a[1] = b[1] /\ a[2] = b[2] /\ a[3] <= b[3]

C10_CheckThenLayoutOrder ==
  \A i, j \in DOMAIN diags :
    i < j => KeyLeq(DiagKey(diags[i]), DiagKey(diags[j]))

\* A call argument earlier in layout than a local binding was reported
\* after it.
C10_Witness ==
  /\ phase = "done"
  /\ WellFormedModule
  /\ \E i, j \in DOMAIN diags :
       /\ i < j
       /\ diags[i].check = "local"
       /\ diags[j].check = "call"
       /\ diags[j].pos < diags[i].pos

(***************************************************************************)
(* C11.  Every evaluate request ends in a SymbolicValue; a request that    *)
(* exceeds the ceiling returns Unknown as a whole: an aggregate nested     *)
(* beyond the ceiling evaluates to Unknown, and a literal-only nested      *)
(* aggregate whose node count is within the ceiling evaluates to a fully   *)
(* constant Aggregate (a literal to its constant).                         *)
(***************************************************************************)
RECURSIVE NodeCount(_)
RECURSIVE NodeCountOf(_, _)
\* The number of nodes of the operand trees ops[i..].
NodeCountOf(ops, i) ==
  IF i > Len(ops) THEN 0 ELSE NodeCount(ops[i]) + NodeCountOf(ops, i + 1)

\* The number of nodes of v's operand tree, v included.
NodeCount(v) == 1 + NodeCountOf(IR[v].ops, 1)

RECURSIVE LiteralOnly(_)
\* v is a literal, or an aggregate construction of literal-only values.
LiteralOnly(v) ==
  \/ IR[v].kind \in {"integer_literal", "string_literal"}
  \/ /\ IR[v].kind = "struct"
     /\ \A i \in DOMAIN IR[v].ops : LiteralOnly(IR[v].ops[i])

SymbolicValueKinds == {"Unknown", "Integer", "String", "Aggregate"}

RECURSIVE ContainsUnknown(_)
\* Unknown occurs in value, at some nesting depth.
ContainsUnknown(value) ==
  \/ value.kind = "Unknown"
  \/ \E i \in DOMAIN value.members : ContainsUnknown(value.members[i])

\* The answers the evaluator gave for the operands of v.
OperandResults(v) == [i \in DOMAIN IR[v].ops |-> ConstExprState[IR[v].ops[i]]]

Holders(b) == {o \in Objects : lifetime[o] = "live" /\ storage[o] = b}

AllDestroyed == \A o \in Objects : lifetime[o] # "live"

C13_BufferOwnedOnceFreedOnce ==
  \A b \in 1 .. numAllocated :
    /\ Cardinality(Holders(b)) <= 1
    /\ freeCalls[b] <= 1
    /\ Holders(b) # {} => freeCalls[b] = 0
    /\ AllDestroyed => freeCalls[b] = 1

\* Every buffer has been allocated, one of them has gone through two moves,
\* the objects it was taken from are destroyed, and no object is live.
C13_Witness ==
  /\ numAllocated = MaxBuffers
  /\ AllDestroyed
  /\ \E b \in Buffers, o1, o2 \in Objects :
       /\ o1 # o2
       /\ << o1, b >> \in gaveAway
       /\ << o2, b >> \in gaveAway
       /\ lifetime[o1] = "destroyed"
       /\ lifetime[o2] = "destroyed"
       /\ freeCalls[b] = 1

(***************************************************************************)
(* C14.  Whatever sequence of RefCountedClass copy constructions, copy     *)
(* assignments (a wrapper to itself and between two wrappers of the same   *)
(* object included) and destructions a client performs, the retain count   *)
(* of every Swift object a live wrapper points to equals its initial count *)
(* plus the number of live wrappers created by copy that point to it, and  *)
(* the object has not been released to zero.                               *)
(***************************************************************************)
WrappersOf(s) == {w \in Wrappers : Live(w) /\ _opaquePointer[w] = s}

CopiesOf(s) == {w \in WrappersOf(s) : origin[w] = "copy"}

C14_CountIsInitialPlusCopies ==
  \A s \in SwiftObjects :
    WrappersOf(s) # {} =>
      /\ retainCount[s] = initialCount[s] + Cardinality(CopiesOf(s))
      /\ s \notin deallocated

(***************************************************************************)
(* C14, amended.  The retain count of every Swift object equals the number *)
(* of references held outside the wrappers plus the number of live         *)
(* wrappers that point to it, whether they were created from a pointer or  *)
(* by copy; and while a live wrapper points to an object its count is      *)
(* positive and it has never been released to zero, copy assignment        *)
(* retaining the new object before it releases the old one.                *)
(***************************************************************************)
C14_CountIsOutsidePlusWrappers ==
  \A s \in SwiftObjects :
    /\ retainCount[s] = outsideRefs[s] + Cardinality(WrappersOf(s))
    /\ WrappersOf(s) # {} => (s \notin deallocated /\ retainCount[s] > 0)

\* All three kinds of copy assignment have been done, a wrapper created by
\* copy has been destroyed, and an object whose only reference is the one of
\* a single wrapper is still there while another object has been released.
C14_Witness ==
  /\ assigned = {"self", "same", "other"}
  /\ \E w \in Wrappers : origin[w] = "destroyed"
  /\ \E s \in SwiftObjects :
       /\ Cardinality(WrappersOf(s)) = 1
       /\ retainCount[s] = 1
  /\ deallocated # {}

====
